---- MODULE Spec2Model ----
(***************************************************************************)
(* Model of src/upnp_device.cc (GMediaRender generic UPnP device           *)
(* handling): the three dispatcher operations handle_action_request,       *)
(* handle_var_request and handle_subscription_request, the handler-side    *)
(* helpers upnp_add_response, upnp_append_variable, upnp_set_error and     *)
(* upnp_get_string, and the locking around them.  Every engine callback    *)
(* runs on its own thread; a thread's position is pc[t].                   *)
(***************************************************************************)
EXTENDS Integers, Sequences, FiniteSets, TLC

\* ---------------------------------------------------------------- bounds
\* longest response document (number of arguments) a handler builds
MaxDocLen == 1
\* deepest nesting of collector windows a handler opens itself
MaxNest == 1

\* ------------------------------------------------------- engine constants
UPNP_E_SUCCESS == 0
UPNP_SOAP_E_INVALID_ACTION == 401
UPNP_SOAP_E_INVALID_ARGS == 402
UPNP_SOAP_E_INVALID_VAR == 404
UPNP_SOAP_E_ACTION_FAILED == 501
\* a failure code UpnpAddToActionResponse can return (UPNP_E_OUTOF_MEMORY)
UPNP_E_OUTOF_MEMORY == -104
\* a failure code UpnpAcceptSubscription can return (UPNP_E_INVALID_SERVICE)
UPNP_E_INVALID_SERVICE == -111

NULL == "NULL"

\* ------------------------------------------------------------- strings
\* Names that the code inspects character by character are sequences of
\* one-character strings.
STR_LastChange == <<"L","a","s","t","C","h","a","n","g","e">>
STR_A_ARG_TYPE_ == <<"A","_","A","R","G","_","T","Y","P","E","_">>
STR_Volume == <<"V","o","l","u","m","e">>
STR_Channel == <<"C","h","a","n","n","e","l">>
\* "A_ARG_TYPE_Channel"
STR_A_ARG_TYPE_Channel == STR_A_ARG_TYPE_ \o STR_Channel
\* "A_ARG_TYPE" : one character short of the reserved prefix
STR_A_ARG_TYPE == SubSeq(STR_A_ARG_TYPE_, 1, 10)
\* "LastChanged" : has "LastChange" as a proper prefix
STR_LastChanged == STR_LastChange \o <<"d">>
\* a name no service has
STR_Bogus == <<"B","o","g","u","s">>

\* strlen(s)
strlen(s) == Len(s)

\* the character at 0-based position i of the C string s; past its end the
\* terminating NUL
CharAt(s, i) == IF i < Len(s) THEN s[i + 1] ELSE "NUL"

\* strncmp(a, b, n) == 0 : the first n characters agree, comparison
\* stopping at a common terminating NUL
RECURSIVE StrNEqFrom(_, _, _, _)
StrNEqFrom(a, b, n, i) ==
  IF i >= n THEN TRUE
  ELSE IF CharAt(a, i) # CharAt(b, i) THEN FALSE
  ELSE IF CharAt(a, i) = "NUL" THEN TRUE
  ELSE StrNEqFrom(a, b, n, i + 1)

strncmp_eq(a, b, n) == StrNEqFrom(a, b, n, 0)

\* strcmp(a, b) == 0 and std::string operator==
strcmp_eq(a, b) == a = b

\* ------------------------------------------------- the device descriptor
\* The device's service list (upnp_device_descriptor->services).  Each
\* service has an id, an optional change-event collector (last_change), a
\* list of actions (name, whether a callback is bound) and the names of the
\* variables of its variable container, by index.
ServiceList ==
  << [ service_id  |-> "s1",
       last_change |-> TRUE,
       actions     |-> << [action_name |-> "Play", callback |-> TRUE],
                          [action_name |-> "Stop", callback |-> FALSE] >>,
       var_names   |-> << STR_Volume, STR_LastChange,
                          STR_A_ARG_TYPE_Channel >> ],
     [ service_id  |-> "s2",
       last_change |-> FALSE,
       actions     |-> << [action_name |-> "Get", callback |-> TRUE] >>,
       var_names   |-> << STR_A_ARG_TYPE, STR_LastChanged >> ] >>

\* index of a service in ServiceList; 0 is the NULL service pointer
ServiceIdx == 1..Len(ServiceList)

\* service ids a request may carry: the registered ones and an unknown one
RequestServiceIds == {"s1", "s2", "sX"}
\* action names a request may carry
RequestActionNames == {"Play", "Stop", "Get", "Bogus"}
\* variable names a query may carry
RequestVarNames == {STR_Volume, STR_LastChange, STR_A_ARG_TYPE_Channel,
                    STR_A_ARG_TYPE, STR_LastChanged, STR_Bogus}
\* values a state variable can hold
Values == {"0", "1"}
\* values a callback puts in its response itself
ResponseValues == {"0"}

\* the engine's callback threads
Threads == {"t1", "t2"}

\* find_service: linear scan for the first service whose id matches
RECURSIVE find_service_from(_, _)
find_service_from(service_id, serviceNum) ==
  IF serviceNum > Len(ServiceList) THEN 0
  ELSE IF strcmp_eq(ServiceList[serviceNum].service_id, service_id)
       THEN serviceNum
       ELSE find_service_from(service_id, serviceNum + 1)

\* find_service with the bug of falling back to the first service when no
\* id matches
find_service_first(service_id) ==
  IF find_service_from(service_id, 1) = 0 THEN 1
  ELSE find_service_from(service_id, 1)

find_service(service_id) == find_service_from(service_id, 1)

\* find_action: linear scan of the service's action list by name; 0 is the
\* NULL action pointer, also returned for the NULL service
RECURSIVE find_action_from(_, _, _)
find_action_from(srv, action_name, actionNum) ==
  IF actionNum > Len(ServiceList[srv].actions) THEN 0
  ELSE IF strcmp_eq(ServiceList[srv].actions[actionNum].action_name,
                    action_name)
       THEN actionNum
       ELSE find_action_from(srv, action_name, actionNum + 1)

find_action(srv, action_name) ==
  IF srv = 0 THEN 0 ELSE find_action_from(srv, action_name, 1)

\* ------------------------------------------------------ response document
\* An IXML_Document pointer: NULL, or a document with its argument list
NullDoc == [isNull |-> TRUE, args |-> <<>>]
Doc(args) == [isNull |-> FALSE, args |-> args]

\* UpnpMakeActionResponse(actionName, service_type, 0, NULL): the empty
\* response element of the action
UpnpMakeActionResponse == Doc(<<>>)

\* UpnpAddToActionResponse on success: creates the document when the
\* pointer is NULL and appends one (key, value) argument
UpnpAddToActionResponse(doc, key, value) ==
  Doc(Append(doc.args, <<key, value>>))

\* UpnpGetErrorMessage(rc): the engine's text for an error code
UpnpGetErrorMessage(rc) == <<"UpnpGetErrorMessage", rc>>

\* vsnprintf(buffer, sizeof(buffer), format, ap): the formatted text
vsnprintf(format, arg) == <<format, arg>>

\* a freshly delivered UpnpActionRequest
NewActionRequest(serviceID, actionName) ==
  [ ServiceID     |-> serviceID,
    ActionName    |-> actionName,
    ActionResult  |-> NullDoc,
    ErrCode       |-> UPNP_E_SUCCESS,
    ErrStr        |-> <<>> ]

\* the idle value of a thread's request slot
NoRequest == NewActionRequest("none", "none")

\* request documents a control point may send: none at all (NULL), a
\* document without the action element, an action element with the
\* InstanceID argument
RequestDocs == {"nulldoc", "nochild", "args"}

\* argument names of the "args" request document, each with its text
RequestArgs == << <<"InstanceID", "0">>, <<"Empty", NULL>> >>

\* the child elements of the action element of a request document
ActionElementChildren(requestDoc) ==
  IF requestDoc = "args" THEN RequestArgs ELSE <<>>

\* ------------------------------------------------------------------ state
VARIABLES
  pc,             \* pc[t]: where thread t is in its dispatcher operation
  ar,             \* ar[t]: the UpnpActionRequest of t's action invocation
  event,          \* event[t]: the action_event (status, service) of t
  sv,             \* sv[t]: the UpnpStateVarRequest of t's variable query
  sub,            \* sub[t]: t's subscription request, builder, acceptance
  ret,            \* ret[t]: the value t's handle_* function returned
  device_mutex,   \* priv->device_mutex: NULL or the thread holding it
  service_mutex,  \* service_mutex[srv]: NULL or the thread holding it
  store,          \* store[srv][i]: value of variable i of the container
  last_change,    \* last_change[srv]: the collector (depth, pending set)
  hdepth,         \* hdepth[t]: windows the running handler opened itself
  hist,           \* hist[t]: what t's current operation has done so far
  notified,       \* the notification handed to the engine by this step
  misuse,         \* misuse[srv]: Finish without a matching Start happened
  boot            \* the progress and outcome of upnp_device_init

vars == << pc, ar, event, sv, sub, ret, device_mutex, service_mutex, store,
           last_change, hdepth, hist, notified, misuse, boot >>

\* no notification in this step
NoNotify == [serviceID |-> "none", varcount |-> 0, changed |-> {}]

\* nothing done yet in the current operation
NoHist == [ starts    |-> 0,     \* Start calls made by the dispatcher
            finishes  |-> 0,     \* Finish calls made by the dispatcher
            calls     |-> 0,     \* invocations of the action's callback
            accepts   |-> 0,     \* UpnpAcceptSubscription calls
            set_error |-> FALSE, \* upnp_set_error was called
            err_code  |-> 0,     \* error_code of the last upnp_set_error
            err_msg   |-> <<>>,  \* formatted message of the last one
            add_call  |-> "none", \* "made" when the last API call that
                                 \* touched the request was an
                                 \* upnp_add_response that got to the engine
            add_rc    |-> 0,     \* the engine's rc of that call
            add_ret   |-> 0 ]    \* what that call returned

NoEvent == [status |-> 0, service |-> 0, action |-> 0]
NoVarRequest == [ServiceID |-> "none", StateVarName |-> <<>>,
                 CurrentVal |-> NULL, ErrCode |-> UPNP_E_SUCCESS,
                 service |-> 0]
NoSubscription == [ServiceId |-> "none", service |-> 0, builder |-> <<>>,
                   built |-> FALSE, eventvar_names |-> <<>>,
                   eventvar_values |-> <<>>]

VarIdx(srv) == 1..Len(ServiceList[srv].var_names)

\* the number of retries initialize_device starts with
RetriesInit == 60
\* the delay before a retry, in milliseconds
kRetryTimeMs == 1000
\* a failure code of the engine's startup calls (UPNP_E_SOCKET_BIND)
UPNP_E_SOCKET_BIND == -203

\* upnp_device_init has not begun
BootStart ==
  [ pc |-> "init_function", rc |-> UPNP_E_SUCCESS, retries_left |-> 0,
    attempts |-> 0, slept_ms |-> 0, registered |-> FALSE,
    advertised |-> FALSE, finished |-> FALSE, result |-> NULL,
    failure |-> "none" ]

\* upnp_device_init has returned the device after a first bind that worked;
\* the engine delivers events only then
BootRunning ==
  [ BootStart EXCEPT !.pc = "returned", !.retries_left = RetriesInit,
                     !.attempts = 1, !.registered = TRUE,
                     !.advertised = TRUE, !.result = "device" ]

\* the dispatcher's part of the initial state
InitDispatcher ==
  /\ pc = [t \in Threads |-> "idle"]
  /\ ar = [t \in Threads |-> NoRequest]
  /\ event = [t \in Threads |-> NoEvent]
  /\ sv = [t \in Threads |-> NoVarRequest]
  /\ sub = [t \in Threads |-> NoSubscription]
  /\ ret = [t \in Threads |-> 0]
  /\ device_mutex = NULL
  /\ service_mutex = [srv \in ServiceIdx |-> NULL]
  /\ store = [srv \in ServiceIdx |-> [i \in VarIdx(srv) |-> "0"]]
  /\ last_change = [srv \in ServiceIdx |->
                      [depth |-> 0, pending |-> {}, writers |-> {}]]
  /\ hdepth = [t \in Threads |-> 0]
  /\ hist = [t \in Threads |-> NoHist]
  /\ notified = NoNotify
  /\ misuse = [srv \in ServiceIdx |-> FALSE]

Init ==
  /\ InitDispatcher
  /\ boot = BootRunning

\* ---------------------------------------------------- collector (per spec)
\* UPnPLastChangeCollector::Start
CollectorStart(lc) == [lc EXCEPT !.depth = @ + 1]

\* UPnPLastChangeCollector::Finish: the depth does not go below 0
CollectorFinish(lc) ==
  IF lc.depth = 0 THEN lc
  ELSE IF lc.depth = 1 THEN [depth |-> 0, pending |-> {}, writers |-> {}]
  ELSE [lc EXCEPT !.depth = @ - 1]

\* the collector with the bug of emitting on every Finish of an open window
CollectorEmits_any(lc) == lc.depth >= 1

\* Finish emits when it closes the outermost window
CollectorEmits(lc) == lc.depth = 1

\* Finish called with no window open
CollectorMisused(lc) == lc.depth = 0

\* a write of variable i by thread t through the variable container
\* reaches the collector while a window is open; writers are the threads
\* whose changes wait in pending
CollectorChange(lc, i, t) ==
  IF lc.depth >= 1
  THEN [lc EXCEPT !.pending = @ \cup {i}, !.writers = @ \cup {t}]
  ELSE lc

\* upnp_device_notify: hands the single LastChange variable to UpnpNotify
upnp_device_notify(serviceID, changed) ==
  [serviceID |-> serviceID, varcount |-> 1, changed |-> changed]

\* a Finish call that is never made
DoFinish_skip(srv) ==
  /\ notified' = NoNotify
  /\ UNCHANGED << last_change, misuse >>

\* the effect of one Finish call on service srv
DoFinish(srv) ==
  /\ last_change' = [last_change EXCEPT ![srv] = CollectorFinish(@)]
  /\ notified' = IF CollectorEmits(last_change[srv])
                 THEN upnp_device_notify(ServiceList[srv].service_id,
                                         last_change[srv].pending)
                 ELSE NoNotify
  /\ misuse' = [misuse EXCEPT ![srv] = @ \/ CollectorMisused(last_change[srv])]

\* ------------------------------------------------------ handler-side API
\* upnp_add_response without the fallback to an error response on a
\* construction failure
upnp_add_response_nofallback(req, status, key, value, rc) ==
  IF status # 0 \/ rc # UPNP_E_SUCCESS THEN req
  ELSE [req EXCEPT !.ActionResult = UpnpAddToActionResponse(@, key, value)]

\* upnp_add_response: the request after the call
upnp_add_response(req, status, key, value, rc) ==
  IF status # 0 THEN req
  ELSE IF rc # UPNP_E_SUCCESS
       THEN [req EXCEPT !.ActionResult = NullDoc,
                        !.ErrCode = UPNP_SOAP_E_ACTION_FAILED,
                        !.ErrStr = UpnpGetErrorMessage(rc)]
       ELSE [req EXCEPT !.ActionResult =
                           UpnpAddToActionResponse(@, key, value)]

\* upnp_add_response: its return value
upnp_add_response_ret(status, rc) ==
  IF status # 0 THEN -1
  ELSE IF rc # UPNP_E_SUCCESS THEN -1 ELSE 0

\* the record of one upnp_add_response call in the operation's history; a
\* call turned away by the status test leaves the request and the history
\* as they are
AddHist(h, status, rc) ==
  IF status # 0 THEN h
  ELSE [h EXCEPT !.add_call = "made",
                 !.add_rc = rc,
                 !.add_ret = upnp_add_response_ret(status, rc)]

\* upnp_set_error: the request after the call (event->status becomes -1)
upnp_set_error(req, error_code, format, arg) ==
  [req EXCEPT !.ActionResult = NullDoc,
              !.ErrCode = UPNP_SOAP_E_ACTION_FAILED,
              !.ErrStr = vsnprintf(format, arg)]

\* upnp_get_string: scan of the action element's children for key
RECURSIVE get_string_scan(_, _, _)
get_string_scan(children, key, n) ==
  IF n > Len(children) THEN NULL
  ELSE IF children[n][1] = key
       THEN (IF children[n][2] # NULL THEN children[n][2] ELSE "")
       ELSE get_string_scan(children, key, n + 1)

\* upnp_get_string: the error it reports, "" when it finds the argument
upnp_get_string_error(requestDoc, key) ==
  IF requestDoc = "nulldoc" THEN "Invalid action request document"
  ELSE IF requestDoc = "nochild" THEN "Invalid action request document"
  ELSE IF get_string_scan(ActionElementChildren(requestDoc), key, 1) = NULL
       THEN "Missing action request argument (%s)"
       ELSE ""

\* upnp_get_string: the string it returns (NULL on error)
upnp_get_string(requestDoc, key) ==
  IF upnp_get_string_error(requestDoc, key) # "" THEN NULL
  ELSE get_string_scan(ActionElementChildren(requestDoc), key, 1)

\* --------------------------------------------------------------- helpers
\* the service of thread t's action invocation, and whether it has a
\* change-event collector
EventService(t) == event[t].service
HasLastChange(srv) == ServiceList[srv].last_change

\* the continuation with the bug of returning without the Finish block
AfterCallback_nofinish(srv) == "done"

\* where handle_action_request continues after the callback branch: the
\* Finish block when the service has a collector, else the return
AfterCallback(srv) == IF HasLastChange(srv) THEN "a_lock_finish" ELSE "done"

\* the unlock with the bug of leaving the service mutex held
UnlockService_missing(t, srv) == UNCHANGED service_mutex

\* ithread_mutex_lock / ithread_mutex_unlock on a service's mutex
LockService(t, srv) ==
  /\ service_mutex[srv] = NULL
  /\ service_mutex' = [service_mutex EXCEPT ![srv] = t]

UnlockService(t, srv) ==
  service_mutex' = [service_mutex EXCEPT ![srv] = NULL]

\* the device unlock with the bug of leaving the mutex held
UnlockDevice_missing(t) == UNCHANGED device_mutex

\* ithread_mutex_unlock on the device mutex
UnlockDevice(t) == device_mutex' = NULL

\* ------------------------------------------------- handle_action_request
\* the unknown-action return with the bug of not setting the error code
UnknownActionResult_nocode(req) == [req EXCEPT !.ActionResult = NullDoc]

\* the unknown-action return with the bug of reporting invalid arguments
UnknownActionResult_args(req) ==
  [req EXCEPT !.ActionResult = NullDoc,
              !.ErrCode = UPNP_SOAP_E_INVALID_ARGS]

\* the request as the unknown-action return leaves it: no response
\* document, error code 401
UnknownActionResult(req) ==
  [req EXCEPT !.ActionResult = NullDoc, !.ErrCode = 401]

\* lookup of service and action; the unknown-action return; the test for
\* the collector
ActionRequest(t) ==
  /\ pc[t] = "idle"
  /\ \E serviceID \in RequestServiceIds, actionName \in RequestActionNames :
       LET event_service == find_service(serviceID)
           event_action == find_action(event_service, actionName)
           req == NewActionRequest(serviceID, actionName)
       IN IF event_action = 0
          THEN /\ ar' = [ar EXCEPT ![t] = UnknownActionResult(req)]
               /\ ret' = [ret EXCEPT ![t] = -1]
               /\ pc' = [pc EXCEPT ![t] = "done"]
               /\ UNCHANGED event
          ELSE /\ ar' = [ar EXCEPT ![t] = req]
               /\ event' = [event EXCEPT ![t] =
                              [status |-> 0, service |-> event_service,
                               action |-> event_action]]
               /\ pc' = [pc EXCEPT ![t] =
                           IF HasLastChange(event_service)
                           THEN "a_lock_start" ELSE "a_call"]
               /\ UNCHANGED ret
  /\ notified' = NoNotify
  /\ UNCHANGED << sv, sub, device_mutex, service_mutex, store, last_change,
                  hdepth, hist, misuse >>
  /\ UNCHANGED boot

\* ithread_mutex_lock before Start
ActLockStart(t) ==
  /\ pc[t] = "a_lock_start"
  /\ LockService(t, EventService(t))
  /\ pc' = [pc EXCEPT ![t] = "a_start"]
  /\ notified' = NoNotify
  /\ UNCHANGED << ar, event, sv, sub, ret, device_mutex, store, last_change,
                  hdepth, hist, misuse >>
  /\ UNCHANGED boot

\* last_change->Start() and the unlock after it
ActStart(t) ==
  /\ pc[t] = "a_start"
  /\ last_change' = [last_change EXCEPT ![EventService(t)] =
                       CollectorStart(@)]
  /\ UnlockService(t, EventService(t))
  /\ hist' = [hist EXCEPT ![t].starts = @ + 1]
  /\ pc' = [pc EXCEPT ![t] = "a_call"]
  /\ notified' = NoNotify
  /\ UNCHANGED << ar, event, sv, sub, ret, device_mutex, store, hdepth,
                  misuse >>
  /\ UNCHANGED boot

\* the callback test: with a callback, the action_event is set up and the
\* callback entered; without one, the error code is set to success
ActInvoke(t) ==
  /\ pc[t] = "a_call"
  /\ LET srv == EventService(t)
         action == ServiceList[srv].actions[event[t].action]
     IN IF action.callback
        THEN /\ event' = [event EXCEPT ![t].status = 0]
             /\ hist' = [hist EXCEPT ![t].calls = @ + 1]
             /\ pc' = [pc EXCEPT ![t] = "h_run"]
             /\ UNCHANGED << ar, ret >>
        ELSE /\ ar' = [ar EXCEPT ![t].ErrCode = UPNP_E_SUCCESS]
             /\ pc' = [pc EXCEPT ![t] = AfterCallback(srv)]
             /\ ret' = [ret EXCEPT ![t] = 0]
             /\ UNCHANGED << event, hist >>
  /\ notified' = NoNotify
  /\ UNCHANGED << sv, sub, device_mutex, service_mutex, store, last_change,
                  hdepth, misuse >>
  /\ UNCHANGED boot

\* the request after the callback returned rc: success code when rc is 0,
\* then an empty response made when there is no response document
AfterCallbackRequest(req, rc) ==
  LET r1 == IF rc = 0 THEN [req EXCEPT !.ErrCode = UPNP_E_SUCCESS] ELSE req
  IN IF r1.ActionResult.isNull
     THEN [r1 EXCEPT !.ActionResult = UpnpMakeActionResponse]
     ELSE r1

\* the callback returns rc (with its own windows closed) and the dispatcher
\* finishes the response
ActCallbackReturn(t) ==
  /\ pc[t] = "h_run"
  /\ hdepth[t] = 0
  /\ \E rc \in {0, -1} :
       ar' = [ar EXCEPT ![t] = AfterCallbackRequest(@, rc)]
  /\ pc' = [pc EXCEPT ![t] = AfterCallback(EventService(t))]
  /\ ret' = [ret EXCEPT ![t] = 0]
  /\ notified' = NoNotify
  /\ UNCHANGED << event, sv, sub, device_mutex, service_mutex, store,
                  last_change, hdepth, hist, misuse >>
  /\ UNCHANGED boot

\* ithread_mutex_lock before Finish
ActLockFinish(t) ==
  /\ pc[t] = "a_lock_finish"
  /\ LockService(t, EventService(t))
  /\ pc' = [pc EXCEPT ![t] = "a_finish"]
  /\ notified' = NoNotify
  /\ UNCHANGED << ar, event, sv, sub, ret, device_mutex, store, last_change,
                  hdepth, hist, misuse >>
  /\ UNCHANGED boot

\* last_change->Finish(), the unlock after it and return 0
ActFinish(t) ==
  /\ pc[t] = "a_finish"
  /\ DoFinish(EventService(t))
  /\ UnlockService(t, EventService(t))
  /\ hist' = [hist EXCEPT ![t].finishes = @ + 1]
  /\ pc' = [pc EXCEPT ![t] = "done"]
  /\ ret' = [ret EXCEPT ![t] = 0]
  /\ UNCHANGED << ar, event, sv, sub, device_mutex, store, hdepth >>
  /\ UNCHANGED boot

\* ------------------------------------------------- the action's callback
\* What a callback may do while it runs: build the response, report an
\* error, read a request argument, append a variable to the response,
\* write a variable, open and close a collector window of its own.

\* the callback calls upnp_add_response(event, key, value); rc is the
\* engine's result of UpnpAddToActionResponse
HAddResponse(t) ==
  /\ pc[t] = "h_run"
  /\ \E value \in ResponseValues,
        rc \in {UPNP_E_SUCCESS, UPNP_E_OUTOF_MEMORY} :
       /\ (event[t].status = 0 /\ rc = UPNP_E_SUCCESS)
            => Len(ar[t].ActionResult.args) < MaxDocLen
       /\ ar' = [ar EXCEPT ![t] =
                   upnp_add_response(@, event[t].status, "key", value, rc)]
       /\ hist' = [hist EXCEPT ![t] = AddHist(@, event[t].status, rc)]
  /\ notified' = NoNotify
  /\ UNCHANGED << pc, event, sv, sub, ret, device_mutex, service_mutex,
                  store, last_change, hdepth, misuse >>
  /\ UNCHANGED boot

\* error codes a callback passes to upnp_set_error
HandlerErrorCodes == {UPNP_SOAP_E_INVALID_ARGS, UPNP_SOAP_E_ACTION_FAILED}

\* one call of upnp_set_error by thread t
SetError(t, error_code, format, arg) ==
  /\ event' = [event EXCEPT ![t].status = -1]
  /\ ar' = [ar EXCEPT ![t] = upnp_set_error(@, error_code, format, arg)]
  /\ hist' = [hist EXCEPT ![t].set_error = TRUE,
                          ![t].err_code = error_code,
                          ![t].err_msg = vsnprintf(format, arg),
                          ![t].add_call = "none",
                          ![t].add_rc = 0,
                          ![t].add_ret = 0]

\* the callback calls upnp_set_error(event, error_code, format)
HSetError(t) ==
  /\ pc[t] = "h_run"
  /\ \E error_code \in HandlerErrorCodes :
       SetError(t, error_code, "handler failed", "")
  /\ notified' = NoNotify
  /\ UNCHANGED << pc, sv, sub, ret, device_mutex, service_mutex, store,
                  last_change, hdepth, misuse >>
  /\ UNCHANGED boot

\* the callback calls upnp_get_string(event, key); requestDoc is the
\* request document the control point sent with the action
HGetString(t) ==
  /\ pc[t] = "h_run"
  /\ \E key \in {"InstanceID", "Empty", "Missing"},
        requestDoc \in RequestDocs :
       LET error == upnp_get_string_error(requestDoc, key)
       IN IF error # ""
          THEN SetError(t, UPNP_SOAP_E_INVALID_ARGS, error,
                        IF error = "Missing action request argument (%s)"
                        THEN key ELSE "")
          ELSE UNCHANGED << event, ar, hist >>
  /\ notified' = NoNotify
  /\ UNCHANGED << pc, sv, sub, ret, device_mutex, service_mutex, store,
                  last_change, hdepth, misuse >>
  /\ UNCHANGED boot

\* a callback step that takes the service mutex and goes to pc value next
HLock(t, next) ==
  /\ pc[t] = "h_run"
  /\ LockService(t, EventService(t))
  /\ pc' = [pc EXCEPT ![t] = next]
  /\ notified' = NoNotify
  /\ UNCHANGED << ar, event, sv, sub, ret, device_mutex, store, last_change,
                  hdepth, hist, misuse >>
  /\ UNCHANGED boot

\* upnp_append_variable: the lock
HAppendLock(t) == HLock(t, "h_append")

\* upnp_append_variable: Get(varnum), upnp_add_response, the unlock
HAppend(t) ==
  /\ pc[t] = "h_append"
  /\ \E varnum \in VarIdx(EventService(t)),
        rc \in {UPNP_E_SUCCESS, UPNP_E_OUTOF_MEMORY} :
       /\ (event[t].status = 0 /\ rc = UPNP_E_SUCCESS)
            => Len(ar[t].ActionResult.args) < MaxDocLen
       /\ ar' = [ar EXCEPT ![t] =
                   upnp_add_response(@, event[t].status, "key",
                                     store[EventService(t)][varnum], rc)]
       /\ hist' = [hist EXCEPT ![t] = AddHist(@, event[t].status, rc)]
  /\ UnlockService(t, EventService(t))
  /\ pc' = [pc EXCEPT ![t] = "h_run"]
  /\ notified' = NoNotify
  /\ UNCHANGED << event, sv, sub, ret, device_mutex, store, last_change,
                  hdepth, misuse >>
  /\ UNCHANGED boot

\* variables a callback of the service writes
WrittenVars(srv) ==
  {i \in VarIdx(srv) : ServiceList[srv].var_names[i]
                         \in {STR_Volume}}

\* the callback writes a variable of its service's container, holding the
\* service mutex for the write
HWrite(t) ==
  /\ pc[t] = "h_run"
  /\ service_mutex[EventService(t)] = NULL
  /\ \E i \in WrittenVars(EventService(t)), value \in Values :
       /\ store[EventService(t)][i] # value
       /\ store' = [store EXCEPT ![EventService(t)][i] = value]
       /\ last_change' = [last_change EXCEPT ![EventService(t)] =
                            CollectorChange(@, i, t)]
  /\ notified' = NoNotify
  /\ UNCHANGED << pc, ar, event, sv, sub, ret, device_mutex, service_mutex,
                  hdepth, hist, misuse >>
  /\ UNCHANGED boot

\* the callback opens a window of its own: last_change->Start() under the
\* service mutex
HStart(t) ==
  /\ pc[t] = "h_run"
  /\ HasLastChange(EventService(t))
  /\ hdepth[t] < MaxNest
  /\ service_mutex[EventService(t)] = NULL
  /\ last_change' = [last_change EXCEPT ![EventService(t)] =
                       CollectorStart(@)]
  /\ hdepth' = [hdepth EXCEPT ![t] = @ + 1]
  /\ notified' = NoNotify
  /\ UNCHANGED << pc, ar, event, sv, sub, ret, device_mutex, service_mutex,
                  store, hist, misuse >>
  /\ UNCHANGED boot

\* the callback closes a window it opened: last_change->Finish() under the
\* service mutex
HFinish(t) ==
  /\ pc[t] = "h_run"
  /\ HasLastChange(EventService(t))
  /\ hdepth[t] > 0
  /\ service_mutex[EventService(t)] = NULL
  /\ DoFinish(EventService(t))
  /\ hdepth' = [hdepth EXCEPT ![t] = @ - 1]
  /\ UNCHANGED << pc, ar, event, sv, sub, ret, device_mutex, service_mutex,
                  store, hist >>
  /\ UNCHANGED boot

\* a callback that calls Finish without having opened a window
HStrayFinish(t) ==
  /\ pc[t] = "h_run"
  /\ HasLastChange(EventService(t))
  /\ hdepth[t] = 0
  /\ service_mutex[EventService(t)] = NULL
  /\ DoFinish(EventService(t))
  /\ UNCHANGED << pc, ar, event, sv, sub, ret, device_mutex, service_mutex,
                  store, hdepth, hist >>
  /\ UNCHANGED boot

\* ---------------------------------------------------- handle_var_request
\* lookup of the service; the unknown-service return
VarRequest(t) ==
  /\ pc[t] = "idle"
  /\ \E serviceID \in RequestServiceIds, stateVarName \in RequestVarNames :
       LET srv == find_service(serviceID)
           req == [NoVarRequest EXCEPT !.ServiceID = serviceID,
                                       !.StateVarName = stateVarName,
                                       !.service = srv]
       IN IF srv = 0
          THEN /\ sv' = [sv EXCEPT ![t] =
                           [req EXCEPT !.ErrCode = UPNP_SOAP_E_INVALID_ARGS]]
               /\ ret' = [ret EXCEPT ![t] = -1]
               /\ pc' = [pc EXCEPT ![t] = "done"]
          ELSE /\ sv' = [sv EXCEPT ![t] = req]
               /\ pc' = [pc EXCEPT ![t] = "v_lock"]
               /\ UNCHANGED ret
  /\ notified' = NoNotify
  /\ UNCHANGED << ar, event, sub, device_mutex, service_mutex, store,
                  last_change, hdepth, hist, misuse >>
  /\ UNCHANGED boot

\* ithread_mutex_lock of the service mutex
VarLock(t) ==
  /\ pc[t] = "v_lock"
  /\ LockService(t, sv[t].service)
  /\ pc' = [pc EXCEPT ![t] = "v_read"]
  /\ notified' = NoNotify
  /\ UNCHANGED << ar, event, sv, sub, ret, device_mutex, store, last_change,
                  hdepth, hist, misuse >>
  /\ UNCHANGED boot

\* the scan with the bug of stopping one variable early
RECURSIVE var_scan_early(_, _, _, _)
var_scan_early(names, values, stateVarName, i) ==
  IF i > Len(names) - 1 THEN NULL
  ELSE IF strcmp_eq(names[i], stateVarName) THEN values[i]
  ELSE var_scan_early(names, values, stateVarName, i + 1)

\* the scan of the variable container: the value of the first variable
\* whose name is stateVarName, NULL when there is none
RECURSIVE var_scan(_, _, _, _)
var_scan(names, values, stateVarName, i) ==
  IF i > Len(names) THEN NULL
  ELSE IF strcmp_eq(names[i], stateVarName) THEN values[i]
  ELSE var_scan(names, values, stateVarName, i + 1)

\* the scan under the lock, and the unlock
VarRead(t) ==
  /\ pc[t] = "v_read"
  /\ LET srv == sv[t].service
     IN /\ sv' = [sv EXCEPT ![t].CurrentVal =
                     var_scan(ServiceList[srv].var_names, store[srv],
                              sv[t].StateVarName, 1)]
        /\ UnlockService(t, srv)
  /\ pc' = [pc EXCEPT ![t] = "v_reply"]
  /\ notified' = NoNotify
  /\ UNCHANGED << ar, event, sub, ret, device_mutex, store, last_change,
                  hdepth, hist, misuse >>
  /\ UNCHANGED boot

\* the current value and the error code are set on the request; return 0
VarReply(t) ==
  /\ pc[t] = "v_reply"
  /\ sv' = [sv EXCEPT ![t].ErrCode =
              IF sv[t].CurrentVal = NULL THEN UPNP_SOAP_E_INVALID_VAR
              ELSE UPNP_E_SUCCESS]
  /\ ret' = [ret EXCEPT ![t] = 0]
  /\ pc' = [pc EXCEPT ![t] = "done"]
  /\ notified' = NoNotify
  /\ UNCHANGED << ar, event, sub, device_mutex, service_mutex, store,
                  last_change, hdepth, hist, misuse >>
  /\ UNCHANGED boot

\* ------------------------------------------- handle_subscription_request
\* the lock order with the bug of taking the service mutex first
SubLockOrder_swapped == <<"s_lock_service", "s_lock_device">>

\* the order in which the two mutexes are taken: device, then service
SubLockOrder == <<"s_lock_device", "s_lock_service">>

\* the lock sequence with the bug of locking the service mutex a second
\* time while holding it
SubAfterLock_relock(at) == SubLockOrder[2]

\* where the thread goes after the lock it took at pc value at
SubAfterLock(at) ==
  IF at = SubLockOrder[1] THEN SubLockOrder[2] ELSE "s_snapshot"

\* lookup of the service; the unknown-service return
SubscriptionRequest(t) ==
  /\ pc[t] = "idle"
  /\ \E serviceId \in RequestServiceIds :
       LET srv == find_service(serviceId)
           req == [NoSubscription EXCEPT !.ServiceId = serviceId,
                                         !.service = srv]
       IN /\ sub' = [sub EXCEPT ![t] = req]
          /\ IF srv = 0
             THEN /\ ret' = [ret EXCEPT ![t] = -1]
                  /\ pc' = [pc EXCEPT ![t] = "done"]
             ELSE /\ pc' = [pc EXCEPT ![t] = SubLockOrder[1]]
                  /\ UNCHANGED ret
  /\ notified' = NoNotify
  /\ UNCHANGED << ar, event, sv, device_mutex, service_mutex, store,
                  last_change, hdepth, hist, misuse >>
  /\ UNCHANGED boot

\* ithread_mutex_lock of the device mutex
SubLockDevice(t) ==
  /\ pc[t] = "s_lock_device"
  /\ device_mutex = NULL
  /\ device_mutex' = t
  /\ pc' = [pc EXCEPT ![t] = SubAfterLock("s_lock_device")]
  /\ notified' = NoNotify
  /\ UNCHANGED << ar, event, sv, sub, ret, service_mutex, store, last_change,
                  hdepth, hist, misuse >>
  /\ UNCHANGED boot

\* ithread_mutex_lock of the service mutex
SubLockService(t) ==
  /\ pc[t] = "s_lock_service"
  /\ LockService(t, sub[t].service)
  /\ pc' = [pc EXCEPT ![t] = SubAfterLock("s_lock_service")]
  /\ notified' = NoNotify
  /\ UNCHANGED << ar, event, sv, sub, ret, device_mutex, store, last_change,
                  hdepth, hist, misuse >>
  /\ UNCHANGED boot

\* the filter with the bug of comparing one character less of the prefix
Evented_short(name) ==
  /\ name # STR_LastChange
  /\ ~ strncmp_eq(STR_A_ARG_TYPE_, name, strlen(STR_A_ARG_TYPE_) - 1)

\* a variable is sent in the initial state unless it is named LastChange
\* or its name starts with A_ARG_TYPE_
Evented(name) ==
  /\ name # STR_LastChange
  /\ ~ strncmp_eq(STR_A_ARG_TYPE_, name, strlen(STR_A_ARG_TYPE_))

\* the loop over the variable container that fills the builder
RECURSIVE build_snapshot(_, _, _, _)
build_snapshot(names, values, builder, i) ==
  IF i > Len(names) THEN builder
  ELSE build_snapshot(names, values,
                      IF Evented(names[i])
                      THEN Append(builder, <<names[i], values[i]>>)
                      ELSE builder,
                      i + 1)

\* the snapshot loop under the service mutex, and the unlock
SubSnapshot(t) ==
  /\ pc[t] = "s_snapshot"
  /\ LET srv == sub[t].service
     IN /\ sub' = [sub EXCEPT ![t].builder =
                      build_snapshot(ServiceList[srv].var_names, store[srv],
                                     <<>>, 1),
                              ![t].built = TRUE]
        /\ UnlockService(t, srv)
  /\ pc' = [pc EXCEPT ![t] = "s_accept"]
  /\ notified' = NoNotify
  /\ UNCHANGED << ar, event, sv, ret, device_mutex, store, last_change,
                  hdepth, hist, misuse >>
  /\ UNCHANGED boot

\* builder.toXML(): the aggregated change document
toXML(builder) == <<"Event", builder>>

\* xmlescape(): the document escaped for use as a variable value
xmlescape(xml) == <<"xmlescape", xml>>

\* UpnpAcceptSubscription with the single variable LastChange, the result
\* from its return code rc, the unlock of the device mutex and the return
SubAccept(t) ==
  /\ pc[t] = "s_accept"
  /\ \E rc \in {UPNP_E_SUCCESS, UPNP_E_INVALID_SERVICE} :
       ret' = [ret EXCEPT ![t] = IF rc = UPNP_E_SUCCESS THEN 0 ELSE -1]
  /\ sub' = [sub EXCEPT ![t].eventvar_names = <<STR_LastChange>>,
                        ![t].eventvar_values =
                           <<xmlescape(toXML(sub[t].builder))>>]
  /\ hist' = [hist EXCEPT ![t].accepts = @ + 1]
  /\ UnlockDevice(t)
  /\ pc' = [pc EXCEPT ![t] = "done"]
  /\ notified' = NoNotify
  /\ UNCHANGED << ar, event, sv, service_mutex, store, last_change, hdepth,
                  misuse >>
  /\ UNCHANGED boot

\* ------------------------------------------------------------ the engine
\* the engine takes the result; the thread is free for the next event
Return(t) ==
  /\ pc[t] = "done"
  /\ pc' = [pc EXCEPT ![t] = "idle"]
  /\ ar' = [ar EXCEPT ![t] = NoRequest]
  /\ event' = [event EXCEPT ![t] = NoEvent]
  /\ sv' = [sv EXCEPT ![t] = NoVarRequest]
  /\ sub' = [sub EXCEPT ![t] = NoSubscription]
  /\ ret' = [ret EXCEPT ![t] = 0]
  /\ hist' = [hist EXCEPT ![t] = NoHist]
  /\ notified' = NoNotify
  /\ UNCHANGED << device_mutex, service_mutex, store, last_change, hdepth,
                  misuse >>
  /\ UNCHANGED boot

Next ==
  \E t \in Threads :
    \/ ActionRequest(t)
    \/ ActLockStart(t)
    \/ ActStart(t)
    \/ ActInvoke(t)
    \/ HAddResponse(t)
    \/ HSetError(t)
    \/ HGetString(t)
    \/ HAppendLock(t)
    \/ HAppend(t)
    \/ HWrite(t)
    \/ HStart(t)
    \/ HFinish(t)
    \/ ActCallbackReturn(t)
    \/ ActLockFinish(t)
    \/ ActFinish(t)
    \/ VarRequest(t)
    \/ VarLock(t)
    \/ VarRead(t)
    \/ VarReply(t)
    \/ SubscriptionRequest(t)
    \/ SubLockDevice(t)
    \/ SubLockService(t)
    \/ SubSnapshot(t)
    \/ SubAccept(t)
    \/ Return(t)

Spec == Init /\ [][Next]_vars

\* callbacks that may also call Finish without a window of their own
NextStray == Next \/ \E t \in Threads : HStrayFinish(t)

SpecStray == Init /\ [][NextStray]_vars

\* ------------------------------------------------------------ properties
\* the service ids of the device's service list
KnownServiceIds == {ServiceList[srv].service_id : srv \in ServiceIdx}

\* the action names of the service with the given id
ActionNamesOf(serviceID) ==
  UNION { {ServiceList[srv].actions[a].action_name :
             a \in 1..Len(ServiceList[srv].actions)} :
          srv \in {x \in ServiceIdx : ServiceList[x].service_id = serviceID} }

\* the service id thread t's current operation asks for ("none" when idle)
RequestedServiceId(t) ==
  IF ar[t].ServiceID # "none" THEN ar[t].ServiceID
  ELSE IF sv[t].ServiceID # "none" THEN sv[t].ServiceID
  ELSE sub[t].ServiceId

\* t's current operation names a service the device does not have
OnUnknownService(t) ==
  /\ RequestedServiceId(t) # "none"
  /\ RequestedServiceId(t) \notin KnownServiceIds

\* t's current operation is an action invocation on a known service with
\* an action name the service does not have
OnUnknownAction(t) ==
  /\ ar[t].ServiceID \in KnownServiceIds
  /\ ar[t].ActionName \notin ActionNamesOf(ar[t].ServiceID)

\* C1: an operation on a service id that is not in the service list fails
\* at once: it returns -1, runs no callback, makes no Start or Finish, never
\* calls UpnpAcceptSubscription, takes no lock, and the step that handles
\* it changes no variable store and no collector.
C1_UnknownServiceFails ==
  [][ \A t \in Threads :
        OnUnknownService(t)' =>
          /\ pc'[t] = "done"
          /\ ret'[t] = -1
          /\ hist'[t] = NoHist
          /\ event'[t] = NoEvent
          /\ pc[t] = "idle" =>
               /\ store' = store
               /\ last_change' = last_change
               /\ device_mutex' = device_mutex
               /\ service_mutex' = service_mutex
               /\ notified' = NoNotify ]_vars

\* C1 witness: an action invocation and a subscription request on the
\* unknown service have both failed
C1_Witness ==
  \E t1, t2 \in Threads :
    /\ pc[t1] = "done" /\ ar[t1].ServiceID = "sX" /\ ret[t1] = -1
    /\ pc[t2] = "done" /\ sub[t2].ServiceId = "sX" /\ ret[t2] = -1

\* C2: an action name the known service does not have gets the fault 401
\* with no response document and return value -1; no callback runs, no
\* Start and no Finish is made and the collector is as it was.
C2_UnknownActionFault ==
  [][ \A t \in Threads :
        OnUnknownAction(t)' =>
          /\ pc'[t] = "done"
          /\ ret'[t] = -1
          /\ ar'[t].ErrCode = UPNP_SOAP_E_INVALID_ACTION
          /\ ar'[t].ActionResult = NullDoc
          /\ hist'[t] = NoHist
          /\ pc[t] = "idle" =>
               /\ last_change' = last_change
               /\ service_mutex' = service_mutex
               /\ notified' = NoNotify ]_vars

\* C2 witness: an invocation of an action s1 does not have, while another
\* invocation has a window open on s1
C2_Witness ==
  \E t1, t2 \in Threads :
    /\ pc[t1] = "done" /\ ar[t1].ServiceID = "s1"
    /\ ar[t1].ActionName = "Get"
    /\ pc[t2] = "h_run" /\ ar[t2].ServiceID = "s1"
    /\ last_change[1].depth = 1

\* t's action invocation on an unregistered service id has returned
UnknownServiceActionDone(t) ==
  /\ pc[t] = "done"
  /\ ar[t].ServiceID # "none"
  /\ ar[t].ServiceID \notin KnownServiceIds

\* C3 as stated: the error code reported for an unregistered service is a
\* code of its own, different from the unsupported-action code.
C3_Original ==
  \A t \in Threads :
    UnknownServiceActionDone(t) =>
      ar[t].ErrCode # UPNP_SOAP_E_INVALID_ACTION

\* C3 amended: an action invocation on an unregistered service id returns
\* -1 with error code 401, the code also used for an unknown action, with
\* no response document, and no callback was invoked.
C3_UnknownServiceAction ==
  \A t \in Threads :
    UnknownServiceActionDone(t) =>
      /\ ret[t] = -1
      /\ ar[t].ErrCode = UPNP_SOAP_E_INVALID_ACTION
      /\ ar[t].ActionResult = NullDoc
      /\ hist[t].calls = 0

\* C3 witness: an invocation of an action name that s1 has, on the
\* unregistered service, has returned
C3_Witness ==
  \E t \in Threads : UnknownServiceActionDone(t) /\ ar[t].ActionName = "Play"

\* C4 as stated: when the callback called upnp_set_error, the request has
\* no response document when handle_action_request returns.
C4_NoDocumentOnError ==
  \A t \in Threads :
    (pc[t] = "done" /\ hist[t].set_error) => ar[t].ActionResult.isNull

\* C5 as stated: when the callback called upnp_set_error(code, message),
\* the request carries that code and that message when
\* handle_action_request returns.
C5_HandlerErrorVerbatim ==
  \A t \in Threads :
    (pc[t] = "done" /\ hist[t].set_error) =>
      /\ ar[t].ErrCode = hist[t].err_code
      /\ ar[t].ErrStr = hist[t].err_msg

\* t's current operation is an invocation of a known action of a service
\* that has a change-event collector
OnCollectorAction(t) ==
  /\ event[t].service # 0
  /\ HasLastChange(event[t].service)

\* the callback of t's invocation is running
InCallback(t) == pc[t] \in {"h_run", "h_append"}

\* C6: in an invocation of a known action on a service with a collector the
\* dispatcher's Start is made before the callback is entered and its Finish
\* after the callback returned, once each, whatever the callback did.
C6_StartCallFinishOrder ==
  \A t \in Threads :
    OnCollectorAction(t) =>
      /\ hist[t].starts \in {0, 1}
      /\ hist[t].finishes \in {0, 1}
      /\ hist[t].calls > 0 => hist[t].starts = 1
      /\ InCallback(t) => (hist[t].starts = 1 /\ hist[t].finishes = 0)
      /\ hist[t].finishes = 1 => (pc[t] = "done" /\ hist[t].starts = 1)
      /\ pc[t] = "done" => (hist[t].starts = 1 /\ hist[t].finishes = 1)

\* C6 witness: an invocation whose callback reported an error has returned
\* with one Start and one Finish made
C6_Witness ==
  \E t \in Threads :
    /\ OnCollectorAction(t) /\ pc[t] = "done"
    /\ hist[t].set_error /\ hist[t].calls = 1
    /\ hist[t].starts = 1 /\ hist[t].finishes = 1

\* the id of service srv
IdOf(srv) == ServiceList[srv].service_id

\* C7: a notification is handed to the engine only by a step in which the
\* depth of that service's collector goes from 1 to 0, and it carries the
\* one variable LastChange; a step that lowers a depth to a value above 0
\* notifies nothing; misuse is flagged only by, and by every dispatcher
\* Finish of, a step that finds the depth at 0, and such a step notifies
\* nothing and leaves the depth at 0.
C7_EmitOnlyOnOutermostFinish ==
  [][ /\ notified' # NoNotify =>
           \E srv \in ServiceIdx :
             /\ notified'.serviceID = IdOf(srv)
             /\ notified'.varcount = 1
             /\ last_change[srv].depth = 1
             /\ last_change'[srv].depth = 0
      /\ \A srv \in ServiceIdx :
           /\ (last_change'[srv].depth < last_change[srv].depth
               /\ last_change'[srv].depth > 0) => notified' = NoNotify
           /\ (last_change[srv].depth = 1 /\ last_change'[srv].depth = 0)
                => notified'.serviceID = IdOf(srv)
           /\ last_change'[srv].depth >= 0
           /\ (misuse'[srv] /\ ~ misuse[srv]) =>
                /\ last_change[srv].depth = 0
                /\ last_change'[srv].depth = 0
                /\ notified' = NoNotify
      /\ \A t \in Threads :
           (hist'[t].finishes = hist[t].finishes + 1
            /\ last_change[event[t].service].depth = 0) =>
             /\ misuse'[event[t].service]
             /\ notified' = NoNotify ]_vars

\* C7 witness: a notification is being handed over for s1 although an
\* earlier Finish on s1 found no window open, and another invocation is
\* still inside its callback
C7_Witness ==
  /\ notified # NoNotify
  /\ misuse[1]
  /\ \E t \in Threads : pc[t] = "h_run" /\ event[t].service = 1

\* the elements of a sequence
Range(seq) == {seq[i] : i \in 1..Len(seq)}

\* name starts with the reserved prefix A_ARG_TYPE_
HasArgTypePrefix(name) ==
  /\ Len(name) >= Len(STR_A_ARG_TYPE_)
  /\ SubSeq(name, 1, Len(STR_A_ARG_TYPE_)) = STR_A_ARG_TYPE_

\* the (name, value) pairs the initial state of service srv must have when
\* the store holds values
ExpectedSnapshot(srv, values) ==
  { <<ServiceList[srv].var_names[i], values[i]>> :
      i \in { j \in VarIdx(srv) :
                /\ ServiceList[srv].var_names[j] # STR_LastChange
                /\ ~ HasArgTypePrefix(ServiceList[srv].var_names[j]) } }

\* C8: the snapshot a subscription request builds holds exactly the pairs
\* (name, value) of the variables not named LastChange and not starting
\* with A_ARG_TYPE_, each once, with the values the store has while the
\* thread holds the service mutex; that snapshot is what the acceptance
\* call gets as the value of LastChange.
C8_SnapshotExact ==
  [][ \A t \in Threads :
        /\ (pc[t] = "s_snapshot" /\ pc'[t] # "s_snapshot") =>
             /\ service_mutex[sub[t].service] = t
             /\ sub'[t].built
             /\ Range(sub'[t].builder) =
                  ExpectedSnapshot(sub[t].service, store[sub[t].service])
             /\ Len(sub'[t].builder) =
                  Cardinality(ExpectedSnapshot(sub[t].service,
                                               store[sub[t].service]))
        /\ (pc[t] = "s_accept" /\ pc'[t] # "s_accept") =>
             /\ sub'[t].builder = sub[t].builder
             /\ sub'[t].eventvar_names = <<STR_LastChange>>
             /\ sub'[t].eventvar_values =
                  <<xmlescape(toXML(sub[t].builder))>> ]_vars

\* C8 witness: subscriptions to both services were accepted, the one to s1
\* with a changed Volume as its only pair, the one to s2 with both of its
\* variables
C8_Witness ==
  \E t1, t2 \in Threads :
    /\ pc[t1] = "done" /\ sub[t1].service = 1 /\ ret[t1] = 0
    /\ sub[t1].builder = << <<STR_Volume, "1">> >>
    /\ pc[t2] = "done" /\ sub[t2].service = 2 /\ ret[t2] = 0
    /\ Len(sub[t2].builder) = 2

\* the value variable name has in values, NULL when no variable of service
\* srv has that name
ValueOf(srv, values, name) ==
  IF \E i \in VarIdx(srv) : ServiceList[srv].var_names[i] = name
  THEN values[CHOOSE i \in VarIdx(srv) :
                 ServiceList[srv].var_names[i] = name]
  ELSE NULL

\* C9: a variable query on a known service reads, holding the service
\* mutex, the value the store has for the name at that moment (NULL for a
\* name the store does not have); it then reports that value with the
\* success code, or the invalid-variable code 404 with no current value;
\* no step of the query changes a store or a collector.
C9_VarQuery ==
  [][ \A t \in Threads :
        /\ (pc[t] = "v_read" /\ pc'[t] # "v_read") =>
             /\ service_mutex[sv[t].service] = t
             /\ sv'[t].CurrentVal =
                  ValueOf(sv[t].service, store[sv[t].service],
                          sv[t].StateVarName)
        /\ (pc[t] = "v_reply" /\ pc'[t] # "v_reply") =>
             /\ pc'[t] = "done"
             /\ sv'[t].CurrentVal = sv[t].CurrentVal
             /\ sv'[t].ErrCode = IF sv[t].CurrentVal \in Values
                                 THEN UPNP_E_SUCCESS
                                 ELSE UPNP_SOAP_E_INVALID_VAR
             /\ (sv'[t].ErrCode = UPNP_SOAP_E_INVALID_VAR)
                  = (sv'[t].CurrentVal = NULL)
        /\ (pc[t] \in {"v_lock", "v_read", "v_reply"}
            /\ pc'[t] # pc[t]) =>
             (store' = store /\ last_change' = last_change) ]_vars

\* C9 witness: a query for Volume has returned the value a callback wrote
\* while a second query, for a name s1 does not have, has returned 404
C9_Witness ==
  \E t1, t2 \in Threads :
    /\ pc[t1] = "done" /\ sv[t1].service = 1
    /\ sv[t1].StateVarName = STR_Volume /\ sv[t1].CurrentVal = "1"
    /\ sv[t1].ErrCode = UPNP_E_SUCCESS
    /\ pc[t2] = "done" /\ sv[t2].service = 1
    /\ sv[t2].StateVarName = STR_LastChanged /\ sv[t2].CurrentVal = NULL
    /\ sv[t2].ErrCode = UPNP_SOAP_E_INVALID_VAR

\* thread t holds no mutex
HoldsNoLock(t) ==
  /\ device_mutex # t
  /\ \A srv \in ServiceIdx : service_mutex[srv] # t

\* C10: a thread whose dispatcher operation has returned (or not begun),
\* or whose callback is running outside upnp_append_variable, holds
\* neither the device mutex nor a service mutex.
C10_NoLockHeldOnReturn ==
  \A t \in Threads :
    pc[t] \in {"idle", "done", "h_run"} => HoldsNoLock(t)

\* C10 witness: a subscription whose acceptance failed and an invocation
\* whose callback reported an error have both returned
C10_Witness ==
  \E t1, t2 \in Threads :
    /\ pc[t1] = "done" /\ hist[t1].accepts = 1 /\ ret[t1] = -1
    /\ pc[t2] = "done" /\ hist[t2].set_error
    /\ HoldsNoLock(t1) /\ HoldsNoLock(t2)

\* the services whose mutex thread t holds
ServiceLocksOf(t) == {srv \in ServiceIdx : service_mutex[srv] = t}

\* C11: a thread waiting for the device mutex holds no service mutex; no
\* thread holds the mutexes of two services; the device mutex is held only
\* by a thread inside a subscription request, and a step that takes it is
\* made by a thread that holds no service mutex.
C11_LockOrder ==
  [][ \A t \in Threads :
        /\ pc'[t] = "s_lock_device" => ServiceLocksOf(t)' = {}
        /\ Cardinality(ServiceLocksOf(t)') <= 1
        /\ device_mutex' = t =>
             /\ sub'[t].service # 0
             /\ pc'[t] \in {"s_lock_service", "s_snapshot", "s_accept"}
        /\ (device_mutex' = t /\ device_mutex # t) =>
             /\ pc[t] = "s_lock_device"
             /\ ServiceLocksOf(t) = {} ]_vars

\* C11 witness: a subscription request holds the device mutex and the
\* mutex of s1 while an action invocation holds the mutex of s2
C11_Witness ==
  \E t1, t2 \in Threads :
    /\ device_mutex = t1 /\ service_mutex[1] = t1
    /\ service_mutex[2] = t2 /\ pc[t2] = "h_append"

\* C12: the thread that is about to enter the callback holds no mutex, and
\* while the callback runs it holds no device mutex and no service mutex
\* but the one upnp_append_variable has taken for the callback itself.
C12_CallbackRunsUnlocked ==
  \A t \in Threads :
    /\ pc[t] = "a_call" => HoldsNoLock(t)
    /\ InCallback(t) =>
         /\ device_mutex # t
         /\ ServiceLocksOf(t) =
              IF pc[t] = "h_append" THEN {EventService(t)} ELSE {}

\* C12 witness: while the callback of an invocation on s1 runs, a variable
\* query holds the mutex of s1
C12_Witness ==
  \E t1, t2 \in Threads :
    /\ pc[t1] = "h_run" /\ EventService(t1) = 1
    /\ pc[t2] = "v_read" /\ service_mutex[1] = t2

\* ------------------------------------------------------ upnp_device_init
\* the dispatcher does nothing while the device starts up
DispatcherIdle ==
  UNCHANGED << pc, ar, event, sv, sub, ret, device_mutex, service_mutex,
               store, last_change, hdepth, hist, notified, misuse >>

\* return codes an engine startup call can give
StartupCodes == {UPNP_E_SUCCESS, UPNP_E_SOCKET_BIND}

\* upnp_device_init returns NULL after initialize_device returned FALSE:
\* UpnpFinish() and free()
BootFailed(b, failure) ==
  [b EXCEPT !.pc = "returned", !.finished = TRUE, !.result = NULL,
            !.failure = failure]

\* the device's optional init_function; a nonzero result ends
\* upnp_device_init with NULL before anything is registered
BootInitFunction ==
  /\ boot.pc = "init_function"
  /\ \E rc \in {0, -1} :
       boot' = IF rc # 0
               THEN [boot EXCEPT !.pc = "returned", !.result = NULL,
                                 !.failure = "init_function"]
               ELSE [boot EXCEPT !.pc = "bind"]
  /\ DispatcherIdle

\* the first UpnpInit2 call and the retry counter
BootBind ==
  /\ boot.pc = "bind"
  /\ \E rc \in StartupCodes :
       boot' = [boot EXCEPT !.pc = "retry_loop", !.rc = rc,
                            !.attempts = @ + 1,
                            !.retries_left = RetriesInit]
  /\ DispatcherIdle

\* the loop condition with the bug of testing retries_left-- >= 0
RetryCondition_ge(rc, retries_left) ==
  rc # UPNP_E_SUCCESS /\ retries_left >= 0

\* the loop condition rc != UPNP_E_SUCCESS && retries_left--
RetryCondition(rc, retries_left) ==
  rc # UPNP_E_SUCCESS /\ retries_left # 0

\* one pass of the retry loop: the decrement, usleep, UpnpInit2 again
BootRetry ==
  /\ boot.pc = "retry_loop"
  /\ RetryCondition(boot.rc, boot.retries_left)
  /\ \E rc \in StartupCodes :
       boot' = [boot EXCEPT !.retries_left = @ - 1,
                            !.slept_ms = @ + kRetryTimeMs,
                            !.attempts = @ + 1,
                            !.rc = rc]
  /\ DispatcherIdle

\* the loop ends; a bind that still failed makes initialize_device return
\* FALSE ("Giving up")
BootLoopExit ==
  /\ boot.pc = "retry_loop"
  /\ ~ RetryCondition(boot.rc, boot.retries_left)
  /\ LET b == IF boot.rc # UPNP_E_SUCCESS
              THEN [boot EXCEPT !.retries_left = @ - 1]
              ELSE boot
     IN boot' = IF b.rc # UPNP_E_SUCCESS
                THEN BootFailed(b, "bind")
                ELSE [b EXCEPT !.pc = "webserver"]
  /\ DispatcherIdle

\* UpnpEnableWebserver, webserver_register_callbacks, UpnpAddVirtualDir
BootWebserver ==
  /\ boot.pc = "webserver"
  /\ \E rc \in StartupCodes :
       boot' = IF rc # UPNP_E_SUCCESS
               THEN BootFailed(boot, "webserver")
               ELSE [boot EXCEPT !.pc = "register"]
  /\ DispatcherIdle

\* UpnpRegisterRootDevice2 with event_handler as the callback
BootRegister ==
  /\ boot.pc = "register"
  /\ \E rc \in StartupCodes :
       boot' = IF rc # UPNP_E_SUCCESS
               THEN BootFailed(boot, "register")
               ELSE [boot EXCEPT !.pc = "advertise", !.registered = TRUE]
  /\ DispatcherIdle

\* UpnpSendAdvertisement; upnp_device_init returns the device
BootAdvertise ==
  /\ boot.pc = "advertise"
  /\ \E rc \in StartupCodes :
       boot' = IF rc # UPNP_E_SUCCESS
               THEN BootFailed(boot, "advertise")
               ELSE [boot EXCEPT !.pc = "returned", !.advertised = TRUE,
                                 !.result = "device"]
  /\ DispatcherIdle

InitStartup ==
  /\ InitDispatcher
  /\ boot = BootStart

NextStartup ==
  \/ BootInitFunction
  \/ BootBind
  \/ BootRetry
  \/ BootLoopExit
  \/ BootWebserver
  \/ BootRegister
  \/ BootAdvertise

SpecInit == InitStartup /\ [][NextStartup]_vars

\* C13 as stated: UpnpInit2 is attempted at most 60 times in total.
C13_Original == boot.attempts <= 60

\* C13 amended: UpnpInit2 is attempted at most 61 times in total, the first
\* attempt and at most 60 retries, each retry after a delay of 1000 ms;
\* startup goes on only after an attempt that worked, and when all 61
\* attempts fail upnp_device_init returns NULL with no root device
\* registered and no advertisement sent.
C13_BindRetries ==
  /\ boot.attempts <= 1 + 60
  /\ boot.attempts >= 1 => boot.slept_ms = 1000 * (boot.attempts - 1)
  /\ boot.pc \in {"webserver", "register", "advertise"}
       => boot.rc = UPNP_E_SUCCESS
  /\ (boot.registered \/ boot.advertised) => boot.rc = UPNP_E_SUCCESS
  /\ (boot.pc = "retry_loop" /\ boot.rc # UPNP_E_SUCCESS)
       => boot.attempts + boot.retries_left = 1 + 60
  /\ boot.failure = "bind" =>
       /\ boot.attempts = 1 + 60
       /\ boot.pc = "returned"
       /\ boot.result = NULL
       /\ ~ boot.registered
       /\ ~ boot.advertised

\* C13 witness: upnp_device_init gave up after 61 failed attempts and
\* 60 seconds of delays
C13_Witness ==
  /\ boot.failure = "bind"
  /\ boot.attempts = 61
  /\ boot.slept_ms = 60000
  /\ boot.result = NULL

\* event_handler: the status the engine gets back from the registered
\* callback when the handle_* function it dispatched to returned handler_ret
event_handler(handler_ret) == 0

\* C14 as stated: the registered callback returns 0 when the dispatched
\* operation succeeded and a nonzero status when it failed (unknown
\* service, unknown action, acceptance failure).
C14_CallbackStatus ==
  \A t \in Threads :
    pc[t] = "done" => ((event_handler(ret[t]) = 0) <=> (ret[t] = 0))

\* C15: while the callback runs, when its last API call was an
\* upnp_add_response whose response construction failed in the engine, the
\* response document is cleared, the error code is the "action failed" SOAP
\* fault code, the error string is the engine's description of the failure
\* and the call returned failure.
C15_ConstructionFailure ==
  \A t \in Threads :
    ( /\ InCallback(t)
      /\ hist[t].add_call = "made"
      /\ hist[t].add_rc # UPNP_E_SUCCESS )
    => /\ ar[t].ActionResult.isNull
       /\ ar[t].ErrCode = 501
       /\ ar[t].ErrStr = UpnpGetErrorMessage(hist[t].add_rc)
       /\ hist[t].add_ret # 0

\* the callback is running and its last upnp_add_response call failed in
\* the engine
C15_Witness ==
  \E t \in Threads :
    /\ pc[t] = "h_run"
    /\ hist[t].add_call = "made"
    /\ hist[t].add_rc = UPNP_E_OUTOF_MEMORY
    /\ hist[t].add_ret = -1
    /\ ar[t].ActionResult.isNull
    /\ ar[t].ErrStr = UpnpGetErrorMessage(UPNP_E_OUTOF_MEMORY)

\* C20 as stated: while the callback runs, once a failure has been recorded
\* in the request (by upnp_set_error or by a construction failure in
\* upnp_add_response) the response document stays cleared and no later
\* upnp_add_response call returns success.
C20_StatusNeverRecovers ==
  \A t \in Threads :
    (InCallback(t) /\ ar[t].ErrCode # UPNP_E_SUCCESS)
    => /\ ar[t].ActionResult.isNull
       /\ ~(hist[t].add_call = "made" /\ hist[t].add_ret = 0)

\* t's current operation is an invocation of a known action that has no
\* callback
OnNoHandlerAction(t) ==
  /\ event[t].service # 0
  /\ event[t].action # 0
  /\ ~ ServiceList[event[t].service].actions[event[t].action].callback

\* C17 as stated: an invocation of a known action without a callback runs
\* no callback and returns 0 with the success error code, no error string
\* and an empty response document, with one Start and one Finish made
\* around it when the service has a collector.
C17_NoHandlerEmptyResponse ==
  \A t \in Threads :
    (pc[t] = "done" /\ OnNoHandlerAction(t))
    => /\ hist[t].calls = 0
       /\ ret[t] = 0
       /\ ar[t].ErrCode = UPNP_E_SUCCESS
       /\ ar[t].ErrStr = <<>>
       /\ ar[t].ActionResult = UpnpMakeActionResponse
       /\ OnCollectorAction(t) => (hist[t].starts = 1 /\ hist[t].finishes = 1)

\* the action invocations on service srv that are between the dispatcher's
\* Start and the dispatcher's Finish
BetweenStartAndFinish(srv) ==
  { t \in Threads :
      /\ event[t].service = srv
      /\ HasLastChange(srv)
      /\ pc[t] \in {"a_call", "h_run", "h_append", "a_lock_finish",
                    "a_finish"} }

\* the windows the callbacks of the threads in S have open of their own
RECURSIVE NestedWindows(_)
NestedWindows(S) ==
  IF S = {} THEN 0
  ELSE LET t == CHOOSE x \in S : TRUE
       IN hdepth[t] + NestedWindows(S \ {t})

\* C18: with callbacks that balance their own Start and Finish, the depth
\* of each service's collector is never negative and is the number of
\* action invocations on the service between their Start and their Finish
\* plus the windows their callbacks have open; it is 0 when no invocation
\* on the service is in flight, and no Finish is made at depth 0.
C18_DepthCountsInvocations ==
  \A srv \in ServiceIdx :
    /\ last_change[srv].depth >= 0
    /\ last_change[srv].depth =
         Cardinality(BetweenStartAndFinish(srv))
           + NestedWindows(BetweenStartAndFinish(srv))
    /\ (\A t \in Threads : event[t].service # srv)
         => last_change[srv].depth = 0
    /\ ~ misuse[srv]
    /\ \A t \in Threads :
         hdepth[t] > 0 => (InCallback(t) /\ OnCollectorAction(t))

\* two invocations on service 1 are between Start and Finish, one of them
\* in a window its callback opened, the other about to lock for its Finish
C18_Witness ==
  \E t1, t2 \in Threads :
    /\ t1 # t2
    /\ last_change[1].depth = 3
    /\ pc[t1] = "h_run" /\ hdepth[t1] = 1
    /\ pc[t2] = "a_lock_finish" /\ event[t2].service = 1

\* C16 as stated: when an action invocation on a service with a collector
\* returns, whatever other invocations on the service are doing, no change
\* its callback made is still waiting in the collector: the changes were
\* handed to the engine by the Finish that ends the invocation, in one
\* notification of that service.
C16_EmittedBeforeReturn ==
  [][ \A t \in Threads :
        ( /\ OnCollectorAction(t)
          /\ pc[t] = "a_finish"
          /\ pc'[t] = "done"
          /\ t \in last_change[event[t].service].writers )
        => /\ t \notin last_change'[event[t].service].writers
           /\ notified'.serviceID = IdOf(event[t].service)
           /\ notified'.changed = last_change[event[t].service].pending ]_vars

\* C19 as stated: when a subscription is accepted, every evented variable
\* of the service either has in the initial state passed to the acceptance
\* call the value the store holds, or its change is still waiting in the
\* collector and is notified after the acceptance.
C19_NoChangeMissed ==
  [][ \A t \in Threads :
        (pc[t] = "s_accept" /\ pc'[t] = "done" /\ ret'[t] = 0)
        => \A i \in VarIdx(sub[t].service) :
             LET name == ServiceList[sub[t].service].var_names[i]
             IN (name # STR_LastChange /\ ~ HasArgTypePrefix(name))
                => \/ <<name, store[sub[t].service][i]>>
                        \in Range(sub[t].builder)
                   \/ i \in last_change[sub[t].service].pending ]_vars

\* ------------------------------------------------------------- progress
\* the steps of t's dispatcher operation outside the callback: each lock,
\* each critical section with its unlock, the callback test, the reply
DispatcherStep(t) ==
  \/ ActLockStart(t)
  \/ ActStart(t)
  \/ ActInvoke(t)
  \/ ActLockFinish(t)
  \/ ActFinish(t)
  \/ VarLock(t)
  \/ VarRead(t)
  \/ VarReply(t)
  \/ SubLockDevice(t)
  \/ SubLockService(t)
  \/ SubSnapshot(t)
  \/ SubAccept(t)

\* The engine's worker threads keep running and a mutex is granted to a
\* thread that keeps asking for it (strong fairness of the dispatcher's
\* steps); a callback ends: it leaves upnp_append_variable, where it holds
\* the mutex, closes the windows it opened, at whatever depth of its own
\* it is, and returns.
Fairness ==
  \A t \in Threads :
    /\ SF_vars(DispatcherStep(t))
    /\ WF_vars(HAppend(t))
    /\ \A d \in 1..MaxNest : SF_vars(HFinish(t) /\ hdepth[t] = d)
    /\ SF_vars(ActCallbackReturn(t))

\* The operations as far as locks and termination go. Left out are the
\* callback's calls that take no lock and leave pc alone (upnp_add_response,
\* upnp_set_error, upnp_get_string, a variable write): no guard of a step
\* kept here reads what they change, and a callback that ends makes
\* finitely many of them.
NextLive ==
  \E t \in Threads :
    \/ ActionRequest(t)
    \/ VarRequest(t)
    \/ SubscriptionRequest(t)
    \/ DispatcherStep(t)
    \/ HAppendLock(t)
    \/ HAppend(t)
    \/ HStart(t)
    \/ HFinish(t)
    \/ ActCallbackReturn(t)
    \/ Return(t)

SpecLive == Init /\ [][NextLive]_vars /\ Fairness

\* t's operation has begun and not returned
InFlight(t) == pc[t] \notin {"idle", "done"}

\* some step of t's operation can be taken
CanStep(t) ==
  ENABLED ( \/ DispatcherStep(t)
            \/ HAppend(t)
            \/ HFinish(t)
            \/ ActCallbackReturn(t) )

\* operations are in flight and none of them can take a step
Deadlocked ==
  /\ \E t \in Threads : InFlight(t)
  /\ \A t \in Threads : InFlight(t) => ~ CanStep(t)

\* C21: with fair threads and locks and callbacks that end, whatever the
\* interleaving of action invocations, variable queries and subscription
\* requests on the device's services, no state is reached in which the
\* operations in flight are all stuck, and every operation that has begun
\* returns, holding no lock when it has returned.
C21_EveryOperationReturns ==
  /\ [] ~ Deadlocked
  /\ \A t \in Threads : InFlight(t) ~> (pc[t] = "done" /\ HoldsNoLock(t))

\* a subscription request holds the device mutex and the mutex of service
\* 1 while the other thread's invocation on service 1 waits for that mutex
\* to make its Finish
C21_Witness ==
  \E t1, t2 \in Threads :
    /\ pc[t1] = "s_snapshot"
    /\ device_mutex = t1
    /\ service_mutex[1] = t1
    /\ pc[t2] = "a_lock_finish"
    /\ event[t2].service = 1
    /\ ~ CanStep(t2)
====
